---- MODULE Spec2Model ----
(***************************************************************************)
(* A model of the Azure AD plugin core: credential resolution              *)
(* (azuread/service.go), the session / client cache, the CLI helper        *)
(* invocation and the paginated listing of the report tables.              *)
(***************************************************************************)
EXTENDS Integers, Sequences, FiniteSets, TLC

VARIABLES
    config,     \* azureADConfig: the connection's config file values (pointers)
    environ,    \* the process environment: AZURE_* variables
    resolved,   \* result of one credential resolution, or NotResolved
    cli,        \* two invocations of the CLI helper that differ in the ambient PATH
    cache,      \* d.ConnectionManager.Cache: cache key -> cached instance
    procs,      \* the callers of GetNewSession / GetGraphClient, one per goroutine
    hist,       \* what has been constructed and returned so far (observation only)
    crashed,    \* log.Fatal has ended the process
    iter,       \* one execution of a paginated list function
    query,      \* the quals of one list call and the filters built from them
    remote      \* one failed remote call and what the error handling made of it

cacheVars == <<cache, procs, hist, crashed>>

\* The variables of the filter builder and of the error classifier.
pureVars == <<query, remote>>

vars == <<config, environ, resolved, cli, cache, procs, hist, crashed, iter,
          query, remote>>

-----------------------------------------------------------------------------
(* Go values *)

\* A nil *string / *bool of azureADConfig.
NilPtr == <<>>

\* A non-nil pointer to v.
Ptr(v) == <<v>>

Deref(p) == p[1]

\* Strings a config file can hold for a field: absent, empty, or a value.
ConfigStrings == {NilPtr, Ptr(""), Ptr("c")}

\* Values of an environment variable: os.Getenv gives "" when it is unset.
EnvStrings == {"", "e"}

ConfigBools == {NilPtr, Ptr(FALSE), Ptr(TRUE)}

\* The `if config.X != nil { x = *config.X } else { x = os.Getenv(...) }` idiom.
ConfigOrEnv(p, e) == IF p # NilPtr THEN Deref(p) ELSE e

DefaultMsiEndpoint == "http://169.254.169.254/metadata/identity/oauth2/token"

\* The zero value of hamilton's auth.Config (the named result authConfig).
ZeroAuthConfig ==
    [ Environment            |-> "",
      TenantID               |-> "",
      ClientID               |-> "",
      ClientSecret           |-> "",
      ClientCertPath         |-> "",
      ClientCertPassword     |-> "",
      MsiEndpoint            |-> "",
      EnableClientSecretAuth |-> FALSE,
      EnableClientCertAuth   |-> FALSE,
      EnableMsiAuth          |-> FALSE,
      EnableAzureCliToken    |-> FALSE ]

\* switch environment { ... } of getApplicableAuthorizationDetails.
HamiltonEnvironment(environment) ==
    CASE environment = "AZURECHINACLOUD"        -> "China"
      [] environment = "AZUREUSGOVERNMENTCLOUD" -> "USGovernmentL4"
      [] environment = "AZUREGERMANCLOUD"       -> "Germany"
      [] OTHER                                  -> "Global"

\* switch environment { ... } of GetGraphClient (Germany is commented out).
CloudConfiguration(environment) ==
    CASE environment = "AZURECHINACLOUD"        -> "AzureChina"
      [] environment = "AZUREUSGOVERNMENTCLOUD" -> "AzureGovernment"
      [] OTHER                                  -> "AzurePublic"

-----------------------------------------------------------------------------
(* Credential resolution *)

\* Faulty variant: a set environment variable overrides the config value.
ResolvedInputs_EnvFirst(cfg, env) ==
    LET EnvOrConfig(p, e) == IF e # "" THEN e
                             ELSE IF p # NilPtr THEN Deref(p) ELSE ""
    IN  [ tenantID            |-> EnvOrConfig(cfg.TenantID, env.AZURE_TENANT_ID),
          environment         |-> EnvOrConfig(cfg.Environment, env.AZURE_ENVIRONMENT),
          clientID            |-> EnvOrConfig(cfg.ClientID, env.AZURE_CLIENT_ID),
          clientSecret        |-> EnvOrConfig(cfg.ClientSecret, env.AZURE_CLIENT_SECRET),
          certificatePath     |-> EnvOrConfig(cfg.CertificatePath,
                                              env.AZURE_CERTIFICATE_PATH),
          certificatePassword |-> EnvOrConfig(cfg.CertificatePassword,
                                              env.AZURE_CERTIFICATE_PASSWORD),
          enableMsi           |-> IF cfg.EnableMsi # NilPtr
                                  THEN Deref(cfg.EnableMsi) ELSE FALSE,
          msiEndpoint         |-> IF cfg.EnableMsi # NilPtr /\ cfg.MsiEndpoint # NilPtr
                                  THEN Deref(cfg.MsiEndpoint) ELSE DefaultMsiEndpoint ]

\* The local variables getApplicableAuthorizationDetails and GetGraphClient
\* fill from the config and, for a nil config field, from the environment.
\* The managed-identity flag and endpoint are read from the config only, and
\* the endpoint only when the flag is given.
ResolvedInputs(cfg, env) ==
    [ tenantID            |-> ConfigOrEnv(cfg.TenantID, env.AZURE_TENANT_ID),
      environment         |-> ConfigOrEnv(cfg.Environment, env.AZURE_ENVIRONMENT),
      clientID            |-> ConfigOrEnv(cfg.ClientID, env.AZURE_CLIENT_ID),
      clientSecret        |-> ConfigOrEnv(cfg.ClientSecret, env.AZURE_CLIENT_SECRET),
      certificatePath     |-> ConfigOrEnv(cfg.CertificatePath,
                                          env.AZURE_CERTIFICATE_PATH),
      certificatePassword |-> ConfigOrEnv(cfg.CertificatePassword,
                                          env.AZURE_CERTIFICATE_PASSWORD),
      enableMsi           |-> IF cfg.EnableMsi # NilPtr
                              THEN Deref(cfg.EnableMsi) ELSE FALSE,
      msiEndpoint         |-> IF cfg.EnableMsi # NilPtr /\ cfg.MsiEndpoint # NilPtr
                              THEN Deref(cfg.MsiEndpoint) ELSE DefaultMsiEndpoint ]

\* authConfig after the environment switch, before a tier is chosen.
BaseAuthConfig(in) ==
    [ZeroAuthConfig EXCEPT !.Environment = HamiltonEnvironment(in.environment)]

\* The branch `tenantID == ""`.
CliBranch(in) ==
    [authMethod |-> "CLI",
     authConfig |-> [BaseAuthConfig(in) EXCEPT !.EnableAzureCliToken = TRUE]]

\* The client-secret branch.
SecretBranch(in) ==
    [authMethod |-> "EnableClientSecretAuth",
     authConfig |-> [BaseAuthConfig(in) EXCEPT !.TenantID = in.tenantID,
                                               !.ClientID = in.clientID,
                                               !.ClientSecret = in.clientSecret,
                                               !.EnableClientSecretAuth = TRUE]]

\* The client-certificate branch of azuread/service.go.
CertBranch(in) ==
    [authMethod |-> "EnableClientCertificateAuth",
     authConfig |-> [BaseAuthConfig(in) EXCEPT
                        !.TenantID = in.tenantID,
                        !.ClientID = in.clientID,
                        !.ClientCertPath = in.certificatePath,
                        !.ClientCertPassword = in.certificatePassword,
                        !.EnableClientCertAuth = TRUE]]

\* The managed-identity branch.
MsiBranch(in) ==
    [authMethod |-> "EnableMsiAuth",
     authConfig |-> [BaseAuthConfig(in) EXCEPT !.EnableMsiAuth = TRUE,
                                               !.MsiEndpoint = in.msiEndpoint,
                                               !.TenantID = in.tenantID,
                                               !.ClientID = in.clientID]]

\* No branch of the if / else-if chain taken: authMethod keeps the "CLI" it
\* was given before the chain, and authConfig has no method enabled.
NoBranch(in) ==
    [authMethod |-> "CLI", authConfig |-> BaseAuthConfig(in)]

\* Faulty variant: the certificate tier is tried before the client-secret tier.
getApplicableAuthorizationDetails_CertFirst(cfg, env) ==
    LET in == ResolvedInputs(cfg, env)
    IN  IF in.tenantID = "" THEN CliBranch(in)
        ELSE IF in.tenantID # "" /\ in.clientID # "" /\ in.certificatePath # ""
                /\ in.certificatePassword # ""
        THEN CertBranch(in)
        ELSE IF in.tenantID # "" /\ in.clientID # "" /\ in.clientSecret # ""
        THEN SecretBranch(in)
        ELSE IF in.enableMsi THEN MsiBranch(in)
        ELSE NoBranch(in)

\* Faulty variant: the empty-tenant test comes last instead of first.
getApplicableAuthorizationDetails_TenantLast(cfg, env) ==
    LET in == ResolvedInputs(cfg, env)
    IN  IF in.tenantID # "" /\ in.clientID # "" /\ in.clientSecret # ""
        THEN SecretBranch(in)
        ELSE IF in.tenantID # "" /\ in.clientID # "" /\ in.certificatePath # ""
                /\ in.certificatePassword # ""
        THEN CertBranch(in)
        ELSE IF in.enableMsi THEN MsiBranch(in)
        ELSE IF in.tenantID = "" THEN CliBranch(in)
        ELSE NoBranch(in)

\* Faulty variant: the managed-identity tier also asks for a client id.
getApplicableAuthorizationDetails_MsiNeedsClient(cfg, env) ==
    LET in == ResolvedInputs(cfg, env)
    IN  IF in.tenantID = "" THEN CliBranch(in)
        ELSE IF in.tenantID # "" /\ in.clientID # "" /\ in.clientSecret # ""
        THEN SecretBranch(in)
        ELSE IF in.tenantID # "" /\ in.clientID # "" /\ in.certificatePath # ""
                /\ in.certificatePassword # ""
        THEN CertBranch(in)
        ELSE IF in.enableMsi /\ in.clientID # "" THEN MsiBranch(in)
        ELSE NoBranch(in)

\* getApplicableAuthorizationDetails of azuread/service.go: the authMethod
\* string and the auth.Config descriptor (err is never assigned: always nil).
getApplicableAuthorizationDetails(cfg, env) ==
    LET in == ResolvedInputs(cfg, env)
    IN  IF in.tenantID = "" THEN CliBranch(in)
        ELSE IF in.tenantID # "" /\ in.clientID # "" /\ in.clientSecret # ""
        THEN SecretBranch(in)
        ELSE IF in.tenantID # "" /\ in.clientID # "" /\ in.certificatePath # ""
                /\ in.certificatePassword # ""
        THEN CertBranch(in)
        ELSE IF in.enableMsi THEN MsiBranch(in)
        ELSE NoBranch(in)

\* The client-certificate branch of the earlier service file: no client id.
CertBranch_part001(in) ==
    [authMethod |-> "EnableClientCertificateAuth",
     authConfig |-> [BaseAuthConfig(in) EXCEPT
                        !.TenantID = in.tenantID,
                        !.ClientCertPath = in.certificatePath,
                        !.ClientCertPassword = in.certificatePassword,
                        !.EnableClientCertAuth = TRUE]]

\* getApplicableAuthorizationDetails of the earlier service file
\* (unnamed/part_001): no managed-identity tier, and the certificate tier
\* does not ask for a client id.
getApplicableAuthorizationDetails_part001(cfg, env) ==
    LET in == ResolvedInputs(cfg, env)
    IN  IF in.tenantID = "" THEN CliBranch(in)
        ELSE IF in.tenantID # "" /\ in.clientID # "" /\ in.clientSecret # ""
        THEN SecretBranch(in)
        ELSE IF in.tenantID # "" /\ in.certificatePath # ""
                /\ in.certificatePassword # ""
        THEN CertBranch_part001(in)
        ELSE NoBranch(in)

\* The credential branch GetGraphClient takes (azuread/service.go 309-368):
\* the azidentity constructor it calls, or "nil" when no branch is taken and
\* cred keeps its zero value.
GraphClientCredential(cfg, env) ==
    LET in == ResolvedInputs(cfg, env)
    IN  IF in.tenantID = "" THEN "AzureCLICredential"
        ELSE IF in.tenantID # "" /\ in.clientID # "" /\ in.clientSecret # ""
        THEN "ClientSecretCredential"
        ELSE IF in.tenantID # "" /\ in.clientID # "" /\ in.certificatePath # ""
        THEN "ClientCertificateCredential"
        ELSE IF in.enableMsi THEN "ManagedIdentityCredential"
        ELSE "nil"

-----------------------------------------------------------------------------
(* Specification SpecResolve: one credential resolution on any config and   *)
(* environment.                                                             *)

NotResolved == [by |-> "none"]

\* The value of cli in the specifications that run no CLI helper.
CliUnused == [goos |-> "none"]

\* The value of iter in the specifications that list nothing.
IterUnused == [pc |-> "unused"]

\* The value of query in the specifications that build no filter.
QueryUnused == [pc |-> "unused"]

\* The value of remote in the specifications that classify no error.
RemoteUnused == [pc |-> "unused"]

PureUnused == query = QueryUnused /\ remote = RemoteUnused

\* The cache variables (and iter) in the specifications that make no cached call.
CacheUnused ==
    /\ cache = <<>>
    /\ procs = <<>>
    /\ hist = <<>>
    /\ crashed = FALSE
    /\ iter = IterUnused

\* Config values of the cloud environment and of the managed-identity endpoint.
EnvironmentPtrs == {NilPtr}

MsiEndpointPtrs == {NilPtr}

Configs ==
    [ TenantID            : ConfigStrings,
      Environment         : EnvironmentPtrs,
      ClientID            : ConfigStrings,
      ClientSecret        : ConfigStrings,
      CertificatePath     : ConfigStrings,
      CertificatePassword : ConfigStrings,
      EnableMsi           : ConfigBools,
      MsiEndpoint         : MsiEndpointPtrs ]

Environs ==
    [ AZURE_TENANT_ID            : EnvStrings,
      AZURE_ENVIRONMENT          : {""},
      AZURE_CLIENT_ID            : EnvStrings,
      AZURE_CLIENT_SECRET        : EnvStrings,
      AZURE_CERTIFICATE_PATH     : EnvStrings,
      AZURE_CERTIFICATE_PASSWORD : EnvStrings ]

InitResolve ==
    /\ config \in Configs
    /\ environ \in Environs
    /\ resolved = NotResolved
    /\ cli = CliUnused
    /\ CacheUnused
    /\ PureUnused

\* GetNewSession's call of getApplicableAuthorizationDetails (service.go:52).
ResolveSession ==
    /\ resolved = NotResolved
    /\ resolved' = [by |-> "getApplicableAuthorizationDetails",
                    out |-> getApplicableAuthorizationDetails(config, environ)]
    /\ UNCHANGED <<config, environ, cli>>
    /\ UNCHANGED <<cacheVars, iter>>
    /\ UNCHANGED pureVars

\* The same call in the earlier service file (unnamed/part_001:42).
ResolveSession_part001 ==
    /\ resolved = NotResolved
    /\ resolved' = [by |-> "getApplicableAuthorizationDetails_part001",
                    out |-> getApplicableAuthorizationDetails_part001(config, environ)]
    /\ UNCHANGED <<config, environ, cli>>
    /\ UNCHANGED <<cacheVars, iter>>
    /\ UNCHANGED pureVars

\* GetGraphClient's choice of the credential constructor (service.go:309-368).
ResolveGraphClient ==
    /\ resolved = NotResolved
    /\ resolved' = [by |-> "GetGraphClient",
                    cred |-> GraphClientCredential(config, environ)]
    /\ UNCHANGED <<config, environ, cli>>
    /\ UNCHANGED <<cacheVars, iter>>
    /\ UNCHANGED pureVars

NextResolve ==
    \/ ResolveSession
    \/ ResolveSession_part001
    \/ ResolveGraphClient

SpecResolve == InitResolve /\ [][NextResolve]_vars

(* Reading a resolution result as one of the four methods *)

Methods == {"Secret", "Certificate", "ManagedIdentity", "CliDelegate"}

\* The methods an auth.Config descriptor has enabled.
EnabledMethods(a) ==
    {m \in Methods :
        \/ m = "Secret" /\ a.EnableClientSecretAuth
        \/ m = "Certificate" /\ a.EnableClientCertAuth
        \/ m = "ManagedIdentity" /\ a.EnableMsiAuth
        \/ m = "CliDelegate" /\ a.EnableAzureCliToken}

\* The method an authMethod string names.
MethodNamed(authMethod) ==
    CASE authMethod = "EnableClientSecretAuth"      -> "Secret"
      [] authMethod = "EnableClientCertificateAuth" -> "Certificate"
      [] authMethod = "EnableMsiAuth"               -> "ManagedIdentity"
      [] authMethod = "CLI"                         -> "CliDelegate"
      [] OTHER                                      -> "None"

\* The method of the credential GetGraphClient builds.
MethodOfCredential(cred) ==
    CASE cred = "ClientSecretCredential"      -> "Secret"
      [] cred = "ClientCertificateCredential" -> "Certificate"
      [] cred = "ManagedIdentityCredential"   -> "ManagedIdentity"
      [] cred = "AzureCLICredential"          -> "CliDelegate"
      [] OTHER                                -> "None"

BySession == {"getApplicableAuthorizationDetails",
              "getApplicableAuthorizationDetails_part001"}

\* A resolution selects method m: the session resolvers name it and enable
\* it in the descriptor, GetGraphClient builds its credential.
Selects(r, m) ==
    \/ r.by \in BySession /\ MethodNamed(r.out.authMethod) = m
                          /\ m \in EnabledMethods(r.out.authConfig)
    \/ r.by = "GetGraphClient" /\ MethodOfCredential(r.cred) = m

In == ResolvedInputs(config, environ)

\* The tiers as the specification words them.
SecretTierApplies ==
    In.tenantID # "" /\ In.clientID # "" /\ In.clientSecret # ""

CertificateTierApplies ==
    In.tenantID # "" /\ In.clientID # "" /\ In.certificatePath # ""

\* C1: whenever tenant, client id and client secret are all non-empty, the
\* resolution selects Secret auth, whatever the certificate path, the
\* certificate password and the managed-identity flag are.
C1_SecretWins ==
    (resolved # NotResolved /\ SecretTierApplies) => Selects(resolved, "Secret")

C1_Witness ==
    /\ resolved # NotResolved
    /\ resolved.by = "getApplicableAuthorizationDetails"
    /\ SecretTierApplies
    /\ In.certificatePath # "" /\ In.certificatePassword # "" /\ In.enableMsi
    /\ Selects(resolved, "Secret")

C3_ExactlyOneMethod ==
    /\ (resolved # NotResolved /\ resolved.by \in BySession) =>
            EnabledMethods(resolved.out.authConfig)
                = {MethodNamed(resolved.out.authMethod)}
    /\ (resolved # NotResolved /\ resolved.by = "GetGraphClient") =>
            MethodOfCredential(resolved.cred) \in Methods

\* C4 (as claimed): with tenant, client id and certificate path non-empty and
\* no client secret, the resolution selects Certificate auth, with or
\* without a certificate password.
C4_CertificatePasswordOptional ==
    (resolved # NotResolved /\ CertificateTierApplies /\ In.clientSecret = "")
        => Selects(resolved, "Certificate")

-----------------------------------------------------------------------------
(* Specification SpecCLI: getTenantFromCLI, run twice on the same machine   *)
(* under two ambient PATH values.                                           *)

\* Longest ambient PATH (in directories) the model draws.
MaxPathLen == 2

\* const azureCLIDefaultPath = "/bin:/sbin:/usr/bin:/usr/local/bin"
azureCLIDefaultPath == <<"/bin", "/sbin", "/usr/bin", "/usr/local/bin">>

\* azureCLIDefaultPathWindows: two directories joined by "; " (the second
\* entry keeps the blank that follows the semicolon).
azureCLIDefaultPathWindows ==
    <<"ProgramFiles(x86)\\Microsoft SDKs\\Azure\\CLI2\\wbin",
      " ProgramFiles\\Microsoft SDKs\\Azure\\CLI2\\wbin">>

\* Directories that may hold an executable named az; "." is the working
\* directory.
AzDirs == {".", "/usr/bin", "ProgramFiles(x86)\\Microsoft SDKs\\Azure\\CLI2\\wbin",
           "/opt/az", "/tmp/planted"}

\* Directories an ambient PATH of the plugin process may list.
AmbientDirs == {"/usr/bin", "/tmp/planted"}

AmbientPaths ==
    UNION {[1..n -> AmbientDirs] : n \in 0..MaxPathLen}

\* Values of the AzureCLIPath override variable ("" when unset).
AzureCLIPathValues == {"", "/opt/az"}

NotFound == "executable file not found"

\* exec.LookPath: the first directory of the list that holds the file.
RECURSIVE LookPath(_, _)
LookPath(dirs, fs) ==
    IF dirs = <<>> THEN NotFound
    ELSE IF (IF Head(dirs) = "" THEN "." ELSE Head(dirs)) \in fs
         THEN (IF Head(dirs) = "" THEN "." ELSE Head(dirs))
         ELSE LookPath(Tail(dirs), fs)

\* cliCmd.Env: os.Environ() with the "PATH=..." entry appended.
CliCmdEnv(goos, ambientPath, azureCLIPath) ==
    <<[key |-> "PATH", value |-> ambientPath],
      [key |-> "PATH",
       value |-> <<azureCLIPath>> \o
                 (IF goos = "windows" THEN azureCLIDefaultPathWindows
                                      ELSE azureCLIDefaultPath)]>>

\* The value the child process sees for a key: os/exec keeps the last entry
\* of a duplicated key.
RECURSIVE EnvLookup(_, _)
EnvLookup(env, key) ==
    IF env = <<>> THEN <<>>
    ELSE IF env[Len(env)].key = key THEN env[Len(env)].value
         ELSE EnvLookup(SubSeq(env, 1, Len(env) - 1), key)

\* The az executable a run ends up executing.  Off Windows exec.Command("az")
\* resolves the bare name in the plugin process, against its own PATH; on
\* Windows cmd.exe (named by its full path) resolves az itself, in its working
\* directory and then along the PATH it was handed.
AzBinary(goos, ambientPath, azureCLIPath, fs) ==
    IF goos = "windows"
    THEN LookPath(<<".">> \o
                  EnvLookup(CliCmdEnv(goos, ambientPath, azureCLIPath), "PATH"), fs)
    ELSE LookPath(ambientPath, fs)

\* What the helper process does once started.
HelperOutcomes == {"token_json", "exit_nonzero", "unparsable_output"}

\* getTenantFromCLI: the binary run, the PATH it was handed, and the
\* (tenant, err) pair returned.
getTenantFromCLI(goos, ambientPath, azureCLIPath, fs, outcome) ==
    LET binary == AzBinary(goos, ambientPath, azureCLIPath, fs)
    IN  [ binary    |-> binary,
          childPath |-> EnvLookup(CliCmdEnv(goos, ambientPath, azureCLIPath), "PATH"),
          err       |-> IF binary = NotFound THEN "invoke_failed"
                        ELSE IF outcome = "exit_nonzero" THEN "invoke_failed"
                        ELSE IF outcome = "unparsable_output" THEN "unmarshal_failed"
                        ELSE "nil",
          tenant    |-> IF binary # NotFound /\ outcome = "token_json"
                        THEN "cli-tenant" ELSE "" ]

NotRun == [binary |-> "not run"]

InitCLI ==
    /\ config = [f \in {} |-> 0]
    /\ environ = [f \in {} |-> 0]
    /\ resolved = NotResolved
    /\ CacheUnused
    /\ PureUnused
    /\ \E goos \in {"windows", "linux"}, override \in AzureCLIPathValues,
          fs \in SUBSET AzDirs, p1 \in AmbientPaths, p2 \in AmbientPaths :
            cli = [ goos         |-> goos,
                    AzureCLIPath |-> override,
                    fs           |-> fs,
                    PATH         |-> <<p1, p2>>,
                    run          |-> <<NotRun, NotRun>> ]

\* One run of getTenantFromCLI under the r-th ambient PATH.
InvokeCLI(r) ==
    /\ cli.goos # "none"
    /\ cli.run[r] = NotRun
    /\ \E outcome \in HelperOutcomes :
          cli' = [cli EXCEPT !.run[r] =
                     getTenantFromCLI(cli.goos, cli.PATH[r], cli.AzureCLIPath,
                                      cli.fs, outcome)]
    /\ UNCHANGED <<config, environ, resolved>>
    /\ UNCHANGED <<cacheVars, iter>>
    /\ UNCHANGED pureVars

NextCLI == \E r \in 1..2 : InvokeCLI(r)

SpecCLI == InitCLI /\ [][NextCLI]_vars

BothRun == cli.goos # "none" /\ cli.run[1] # NotRun /\ cli.run[2] # NotRun

\* The directories the code means the helper to be searched in.
TrustedDirs(goos, override) ==
    {override} \cup
    {(IF goos = "windows" THEN azureCLIDefaultPathWindows
                          ELSE azureCLIDefaultPath)[i] :
        i \in 1..Len(IF goos = "windows" THEN azureCLIDefaultPathWindows
                                         ELSE azureCLIDefaultPath)}

\* C6 (as claimed): two runs that differ only in the ambient PATH execute the
\* same az binary, and the PATH handed to the helper lists only the override
\* and the default locations, nothing of the ambient PATH.
C6_AmbientPathIgnored ==
    BothRun =>
        /\ cli.run[1].binary = cli.run[2].binary
        /\ \A r \in 1..2 : \A i \in 1..Len(cli.run[r].childPath) :
              cli.run[r].childPath[i] \in TrustedDirs(cli.goos, cli.AzureCLIPath)

\* The half of C6 the code keeps: the PATH handed to the helper.
C6_ChildPathTrusted ==
    BothRun =>
        \A r \in 1..2 : \A i \in 1..Len(cli.run[r].childPath) :
            cli.run[r].childPath[i] \in TrustedDirs(cli.goos, cli.AzureCLIPath)

\* On Windows, where cmd.exe does the lookup, the binary is the same too.
C6_WindowsSameBinary ==
    (BothRun /\ cli.goos = "windows") => cli.run[1].binary = cli.run[2].binary

-----------------------------------------------------------------------------
(* Specification SpecCache: callers of GetNewSession and GetGraphClient on  *)
(* one connection cache, sequential and concurrent, with the config free to *)
(* change between and during calls.                                         *)

\* Number of concurrent callers.
NumProcs == 2

\* Calls made in one run of the process, over all callers.
MaxCalls == 3

Procs == 1..NumProcs

\* The get-or-create functions: GetNewSession and GetGraphClient of
\* azuread/service.go, and GetNewSession of the earlier service file.
CachedFns == {"GetNewSession", "GetNewSession_part001", "GetGraphClient"}

\* sessionCacheKey / serviceCacheKey of each function.
sessionCacheKey(fn) ==
    CASE fn = "GetNewSession"         -> "GetNewSession"
      [] fn = "GetNewSession_part001" -> "authMethod"
      [] fn = "GetGraphClient"        -> "GetGraphClient"

CacheKeys == {sessionCacheKey(fn) : fn \in CachedFns}

\* Cache.Get finds nothing under the key.
NoEntry == [id |-> 0]

\* A nil *Session / *GraphServiceClient.
NilInstance == [id |-> 0]

AllNil == [f \in {"TenantID", "Environment", "ClientID", "ClientSecret",
                  "CertificatePath", "CertificatePassword", "EnableMsi",
                  "MsiEndpoint"} |-> NilPtr]

\* The configs the callers run under: nothing set (CLI), a client secret,
\* and a tenant alone (no tier applies).
CacheConfigs ==
    { AllNil,
      [AllNil EXCEPT !.TenantID = Ptr("c"), !.ClientID = Ptr("c"),
                     !.ClientSecret = Ptr("c")],
      [AllNil EXCEPT !.TenantID = Ptr("c")] }

NoEnviron ==
    [v \in {"AZURE_TENANT_ID", "AZURE_ENVIRONMENT", "AZURE_CLIENT_ID",
            "AZURE_CLIENT_SECRET", "AZURE_CERTIFICATE_PATH",
            "AZURE_CERTIFICATE_PASSWORD"} |-> ""]

NoReturn == [inst |-> NilInstance, adapter |-> "nil", err |-> "none yet"]

IdleProc ==
    [ pc          |-> "idle",        \* idle, construct (after a miss), done
      fn          |-> "none",
      ranResolver |-> FALSE,         \* this call ran the credential resolution
      prior       |-> {},            \* instances fn had returned when the call began
      quiet       |-> FALSE,         \* began with an entry cached and no call of fn running
      ret         |-> NoReturn ]

InitCache ==
    /\ config \in CacheConfigs
    /\ environ = NoEnviron
    /\ resolved = NotResolved
    /\ cli = CliUnused
    /\ cache = [k \in CacheKeys |-> NoEntry]
    /\ procs = [p \in Procs |-> IdleProc]
    /\ iter = IterUnused
    /\ hist = [ ncalls      |-> 0,
                constructed |-> [fn \in CachedFns |-> {}],
                returned    |-> [fn \in CachedFns |-> {}],
                overlapped  |-> [fn \in CachedFns |-> FALSE] ]
    /\ crashed = FALSE
    /\ PureUnused

InFlight(q) == procs[q].pc = "construct"

\* What a call notes as it begins (observation only).
Begin(p, fn) ==
    [ IdleProc EXCEPT
        !.fn     = fn,
        !.prior  = hist.returned[fn],
        !.quiet  = /\ cache[sessionCacheKey(fn)] # NoEntry
                   /\ \A q \in Procs \ {p} : ~(InFlight(q) /\ procs[q].fn = fn) ]

NoteBegin(p, fn) ==
    [hist EXCEPT
        !.ncalls = @ + 1,
        !.overlapped[fn] = @ \/ \E q \in Procs \ {p} : InFlight(q) /\ procs[q].fn = fn]

CanCall(p) ==
    /\ ~crashed
    /\ procs[p].pc \in {"idle", "done"}
    /\ hist.ncalls < MaxCalls

\* Faulty variant: the cache is never consulted (the lookup is commented out).
CacheGet_NoLookup(p, fn) ==
    /\ CanCall(p)
    /\ fn \in {"GetNewSession", "GetGraphClient"}
    /\ procs' = [procs EXCEPT ![p] = [Begin(p, fn) EXCEPT !.pc = "construct"]]
    /\ hist' = NoteBegin(p, fn)
    /\ UNCHANGED <<cache, crashed, config, environ, resolved, cli, iter>>
    /\ UNCHANGED pureVars

\* The head of GetNewSession / GetGraphClient of azuread/service.go:
\* Cache.Get(sessionCacheKey); on a hit the cached instance is returned at
\* once (GetGraphClient returns it with a nil adapter), on a miss the call
\* goes on to resolve and construct.
CacheGet(p, fn) ==
    /\ CanCall(p)
    /\ fn \in {"GetNewSession", "GetGraphClient"}
    /\ IF cache[sessionCacheKey(fn)] # NoEntry
       THEN /\ procs' = [procs EXCEPT ![p] =
                    [Begin(p, fn) EXCEPT
                        !.pc  = "done",
                        !.ret = [inst    |-> cache[sessionCacheKey(fn)],
                                 adapter |-> "nil",
                                 err     |-> "nil"]]]
            /\ hist' = [NoteBegin(p, fn) EXCEPT
                            !.returned[fn] = @ \cup {cache[sessionCacheKey(fn)]}]
       ELSE /\ procs' = [procs EXCEPT ![p] = [Begin(p, fn) EXCEPT !.pc = "construct"]]
            /\ hist' = NoteBegin(p, fn)
    /\ UNCHANGED <<cache, crashed, config, environ, resolved, cli, iter>>
    /\ UNCHANGED pureVars

\* The head of GetNewSession of the earlier service file: the cache lookup
\* is commented out, the call always goes on to resolve and construct.
GetNewSession_part001_Enter(p) ==
    /\ CanCall(p)
    /\ procs' = [procs EXCEPT ![p] =
            [Begin(p, "GetNewSession_part001") EXCEPT !.pc = "construct"]]
    /\ hist' = NoteBegin(p, "GetNewSession_part001")
    /\ UNCHANGED <<cache, crashed, config, environ, resolved, cli, iter>>
    /\ UNCHANGED pureVars

\* Faulty variant: the failing call has cached the instance it was building
\* before it returns the error.
ReturnError_Cached(p, err) ==
    /\ cache' = [cache EXCEPT ![sessionCacheKey(procs[p].fn)] =
                    [id |-> hist.ncalls + 100, method |-> "unfinished"]]
    /\ procs' = [procs EXCEPT
            ![p].pc = "done", ![p].ranResolver = TRUE,
            ![p].ret = [inst |-> NilInstance, adapter |-> "nil", err |-> err]]
    /\ UNCHANGED hist
    /\ UNCHANGED pureVars

\* A call returns an error and no instance; the cache is not written.
ReturnError(p, err) ==
    /\ procs' = [procs EXCEPT
            ![p].pc = "done", ![p].ranResolver = TRUE,
            ![p].ret = [inst |-> NilInstance, adapter |-> "nil", err |-> err]]
    /\ UNCHANGED <<cache, hist>>
    /\ UNCHANGED pureVars

\* A call has constructed a new instance by method m: Cache.Set(key, instance)
\* and the return of the instance (GetGraphClient returns the adapter too).
SetAndReturn(p, m) ==
    LET fn == procs[p].fn
        new == [id |-> Cardinality(UNION {hist.constructed[f] : f \in CachedFns}) + 1,
                method |-> m]
    IN  /\ cache' = [cache EXCEPT ![sessionCacheKey(fn)] = new]
        /\ procs' = [procs EXCEPT
                ![p].pc = "done", ![p].ranResolver = TRUE,
                ![p].ret = [inst    |-> new,
                            adapter |-> IF fn = "GetGraphClient"
                                        THEN "adapter" ELSE "nil",
                            err     |-> "nil"]]
        /\ hist' = [hist EXCEPT !.constructed[fn] = @ \cup {new},
                                !.returned[fn] = @ \cup {new}]

\* GetNewSession after a miss: GetConfig, getApplicableAuthorizationDetails,
\* authConfig.NewAuthorizer (an error is log.Fatal), getTenantFromCLI when
\* the method is "CLI" (an error is returned), then sess = &Session{...},
\* Cache.Set and return.  NewAuthorizer fails when the descriptor enables no
\* method, and may fail otherwise.
GetNewSession_Construct(p) ==
    /\ ~crashed
    /\ procs[p].pc = "construct"
    /\ procs[p].fn \in {"GetNewSession", "GetNewSession_part001"}
    /\ LET out == IF procs[p].fn = "GetNewSession"
                  THEN getApplicableAuthorizationDetails(config, environ)
                  ELSE getApplicableAuthorizationDetails_part001(config, environ)
       IN  \E authorizerOk \in BOOLEAN,
              cliErr \in {"nil", "invoke_failed", "unmarshal_failed"} :
            IF ~authorizerOk \/ EnabledMethods(out.authConfig) = {}
            THEN /\ cliErr = "nil"
                 /\ crashed' = TRUE
                 /\ UNCHANGED <<cache, procs, hist>>
            ELSE IF out.authMethod = "CLI" /\ cliErr # "nil"
            THEN /\ ReturnError(p, cliErr)
                 /\ UNCHANGED crashed
            ELSE /\ cliErr = "nil"
                 /\ SetAndReturn(p, MethodNamed(out.authMethod))
                 /\ UNCHANGED crashed
    /\ UNCHANGED <<config, environ, resolved, cli, iter>>
    /\ UNCHANGED pureVars

\* GetGraphClient after a miss: GetConfig, the credential branch, the
\* authentication provider, the request adapter, the client, Cache.Set and
\* return.  A nil credential (no branch taken) makes the authentication
\* provider fail; every error is returned.
GetGraphClient_Construct(p) ==
    /\ ~crashed
    /\ procs[p].pc = "construct"
    /\ procs[p].fn = "GetGraphClient"
    /\ LET cred == GraphClientCredential(config, environ)
       IN  \E err \in {"nil", "credential_error", "authentication_provider_error",
                       "graph_adapter_error"} :
            /\ cred = "nil" => err = "authentication_provider_error"
            /\ IF err # "nil"
               THEN ReturnError(p, err)
               ELSE SetAndReturn(p, MethodOfCredential(cred))
    /\ UNCHANGED <<crashed, config, environ, resolved, cli, iter>>
    /\ UNCHANGED pureVars

\* The connection config is edited while the process runs.
ChangeConfig ==
    /\ ~crashed
    /\ config' \in CacheConfigs \ {config}
    /\ UNCHANGED <<environ, resolved, cli, cache, procs, hist, crashed, iter>>
    /\ UNCHANGED pureVars

NextCache ==
    \/ \E p \in Procs : \E fn \in {"GetNewSession", "GetGraphClient"} : CacheGet(p, fn)
    \/ \E p \in Procs : GetNewSession_part001_Enter(p)
    \/ \E p \in Procs : GetNewSession_Construct(p)
    \/ \E p \in Procs : GetGraphClient_Construct(p)
    \/ ChangeConfig

SpecCache == InitCache /\ [][NextCache]_vars

\* The get-or-create functions of azuread/service.go.
ServiceGoFns == {"GetNewSession", "GetGraphClient"}

\* A call of fn that has returned.
Returned(p, fn) == procs[p].fn = fn /\ procs[p].pc = "done"

\* A call that began after an earlier call of the same function had returned
\* an instance, in a run where no two calls of that function overlapped,
\* returns that same instance and runs no resolution or construction.
SecondCallReturnsCached(fn) ==
    \A p \in Procs :
        (Returned(p, fn) /\ procs[p].prior # {} /\ ~hist.overlapped[fn]) =>
            /\ procs[p].ret.err = "nil"
            /\ procs[p].prior = {procs[p].ret.inst}
            /\ ~procs[p].ranResolver

\* C7 (as claimed): of two sequential get-or-create calls on one connection
\* cache, the first successful, the second returns the instance the first
\* returned and runs no resolution or construction, whatever happened to the
\* config in between; for every get-or-create function of the repository.
C7_SecondCallReturnsCached ==
    \A fn \in CachedFns : SecondCallReturnsCached(fn)

\* C7 holds of GetNewSession and GetGraphClient of azuread/service.go.
C7_ServiceGo ==
    \A fn \in ServiceGoFns : SecondCallReturnsCached(fn)

\* The most recent Cache.Set under fn's key (instance ids number the writes).
LastWritten(fn) ==
    CHOOSE i \in hist.constructed[fn] : \A j \in hist.constructed[fn] : j.id <= i.id

\* C8: concurrent first callers of GetNewSession / GetGraphClient on an empty
\* cache, with no locking around the calls: a caller that returns a nil error
\* returns a constructed instance; the cache holds nothing until a
\* construction succeeded and then the instance of the last write; and a call
\* that begins when an entry is cached and no call is still running returns
\* the cached instance without resolving.
C8_ConcurrentFirstCallers ==
    \A fn \in ServiceGoFns :
        /\ \A p \in Procs :
              (Returned(p, fn) /\ procs[p].ret.err = "nil") =>
                  /\ procs[p].ret.inst # NilInstance
                  /\ procs[p].ret.inst \in hist.constructed[fn]
        /\ \A p \in Procs :
              (Returned(p, fn) /\ procs[p].ret.err # "nil") =>
                  procs[p].ret.inst = NilInstance
        /\ (hist.constructed[fn] = {}) <=> (cache[sessionCacheKey(fn)] = NoEntry)
        /\ hist.constructed[fn] # {} => cache[sessionCacheKey(fn)] = LastWritten(fn)
        /\ \A p \in Procs :
              (procs[p].fn = fn /\ procs[p].quiet) =>
                  /\ procs[p].pc = "done"
                  /\ procs[p].ret.err = "nil"
                  /\ procs[p].ret.inst = cache[sessionCacheKey(fn)]
                  /\ ~procs[p].ranResolver

\* Two callers both missed and both constructed; a later call got the one
\* instance the cache ended with.
C8_Witness ==
    /\ procs # <<>>
    /\ hist.overlapped["GetNewSession"]
    /\ Cardinality(hist.constructed["GetNewSession"]) = 2
    /\ \E p \in Procs :
          /\ Returned(p, "GetNewSession") /\ procs[p].quiet
          /\ procs[p].ret.inst = cache["GetNewSession"]
          /\ procs[p].ret.inst = LastWritten("GetNewSession")

-----------------------------------------------------------------------------
(* Specification SpecIter: one execution of listAdDirectoryAuditReports,    *)
(* listAdSignInReportsTest or listAdApplications after the client was       *)
(* obtained: the first-page request, the page iterator with the table's     *)
(* callback, the row budget; for listAdApplications the one List call and   *)
(* the loop that streams its result.                                        *)

\* Most pages a result has.
MaxPages == 2

\* Most items a page has.
MaxPageLen == 3

\* Largest row limit a query carries.
MaxLimit == 4

\* The tables that page with msgraphcore.NewPageIterator.
IteratorTables == {"directory_audit", "sign_in_test"}

ListTables == IteratorTables \cup {"application"}

\* A paged result: the number of items of each page, the first page first.
PagedResults ==
    UNION {[1..n -> 0..MaxPageLen] : n \in 1..MaxPages}

\* The query has no LIMIT.
NoLimit == -1

\* d.RowsRemaining(ctx): zero once the context is cancelled, else the rows of
\* the LIMIT not yet streamed (never zero without a LIMIT).
RowsRemaining(it) ==
    IF it.cancelled THEN 0
    ELSE IF it.limit = NoLimit THEN MaxLimit + MaxPages * MaxPageLen
    ELSE IF it.limit > it.streamed THEN it.limit - it.streamed ELSE 0

\* The Go type of the items of a page.  The first page is the typed response
\* of the request; later pages are parsed by the constructor handed to
\* NewPageIterator, which both tables give as
\* models.CreateSignInCollectionResponseFromDiscriminatorValue.
PageItemType(table, page) ==
    IF page = 1
    THEN (IF table = "directory_audit" THEN "DirectoryAudit" ELSE "SignIn")
    ELSE "SignIn"

\* Whether the callback streams the item: the directory-audit callback
\* streams under `if directoryAudit, ok := pageItem.(models.DirectoryAuditable); ok`,
\* the sign-in callback asserts models.SignInable and streams.
CallbackStreams(table, page) ==
    IF table = "directory_audit"
    THEN PageItemType(table, page) = "DirectoryAudit"
    ELSE TRUE

\* The (interface{}, error) a list function returns when the first request
\* fails: the RequestError of getErrorObject, or a formatted errors.New.
FirstRequestError(table) ==
    IF table = "directory_audit" THEN "RequestError" ELSE "errors.New"

\* The error a list function returns after pageIterator.Iterate returned err:
\* listAdDirectoryAuditReports returns err as it is, listAdSignInReportsTest
\* assigns err and returns nil, nil.
ErrorAfterIterate(table, err) ==
    IF table = "directory_audit" THEN err ELSE "nil"

InitIter ==
    /\ config = <<>>
    /\ environ = <<>>
    /\ resolved = NotResolved
    /\ cli = CliUnused
    /\ cache = <<>>
    /\ procs = <<>>
    /\ hist = <<>>
    /\ crashed = FALSE
    /\ PureUnused
    /\ \E table \in ListTables, pages \in PagedResults,
          limit \in {NoLimit} \cup (0..MaxLimit) :
            iter = [ pc        |-> "request",  \* request, emitting, done
                     table     |-> table,
                     pages     |-> pages,
                     limit     |-> limit,
                     cancelled |-> FALSE,
                     page      |-> 0,          \* the current page
                     idx       |-> 0,          \* items of it handed to the callback
                     handed    |-> 0,          \* callback invocations
                     streamed  |-> 0,          \* d.StreamListItem calls
                     checks    |-> 0,          \* d.RowsRemaining calls
                     requests  |-> 0,          \* first-page requests sent
                     fetches   |-> 0,          \* next-page requests sent
                     zeroAt    |-> 0,          \* handed, when the budget first read zero
                     stopped   |-> "no",       \* why the execution ended
                     ret       |-> "none yet"  \* the error returned to the caller
                   ]

\* The items of all the pages of a result.
RECURSIVE TotalItems(_)
TotalItems(pages) ==
    IF pages = <<>> THEN 0
    ELSE pages[Len(pages)] + TotalItems(SubSeq(pages, 1, Len(pages) - 1))

Listing == iter.pc # "unused"

\* Faulty variant: a failed first-page request is sent a second time before
\* the list function gives up.
FirstRequest_Retried ==
    /\ Listing /\ iter.pc = "request"
    /\ iter.table \in IteratorTables
    /\ \E ok \in BOOLEAN :
        iter' = IF ok
                THEN [iter EXCEPT !.pc = "emitting", !.page = 1,
                                  !.requests = @ + 1]
                ELSE IF iter.requests = 0
                THEN [iter EXCEPT !.requests = @ + 1]
                ELSE [iter EXCEPT !.pc = "done", !.requests = @ + 1,
                                  !.stopped = "request_error",
                                  !.ret = FirstRequestError(iter.table)]
    /\ UNCHANGED <<config, environ, resolved, cli, cacheVars>>
    /\ UNCHANGED pureVars

\* client.AuditLogs().DirectoryAudits().Get / SignIns().Get...: the first
\* page arrives, or the request fails and the list function returns.
FirstRequest ==
    /\ Listing /\ iter.pc = "request"
    /\ iter.table \in IteratorTables
    /\ \E ok \in BOOLEAN :
        iter' = IF ok
                THEN [iter EXCEPT !.pc = "emitting", !.page = 1, !.requests = 1]
                ELSE [iter EXCEPT !.pc = "done", !.requests = 1,
                                  !.stopped = "request_error",
                                  !.ret = FirstRequestError(iter.table)]
    /\ UNCHANGED <<config, environ, resolved, cli, cacheVars>>
    /\ UNCHANGED pureVars

\* The callback on the next item of the current page: stream it (when the
\* callback takes it for a row of the table), then read the row budget; zero
\* makes the callback return false, Iterate return nil, and the list
\* function return nil, nil.
VisitItem ==
    /\ Listing /\ iter.pc = "emitting"
    /\ iter.idx < iter.pages[iter.page]
    /\ LET s    == IF CallbackStreams(iter.table, iter.page) THEN 1 ELSE 0
           next == [iter EXCEPT !.idx = @ + 1, !.handed = @ + 1,
                                !.streamed = @ + s, !.checks = @ + 1]
       IN  iter' = IF RowsRemaining(next) = 0
                   THEN [next EXCEPT !.pc = "done", !.stopped = "budget",
                                     !.zeroAt = next.handed, !.ret = "nil"]
                   ELSE next
    /\ UNCHANGED <<config, environ, resolved, cli, cacheVars>>
    /\ UNCHANGED pureVars

\* The current page is exhausted and carries no @odata.nextLink: Iterate
\* returns nil and the list function returns nil, nil.
LastPageExhausted ==
    /\ Listing /\ iter.pc = "emitting"
    /\ iter.idx = iter.pages[iter.page]
    /\ iter.page = Len(iter.pages)
    /\ iter' = [iter EXCEPT !.pc = "done", !.stopped = "exhausted", !.ret = "nil"]
    /\ UNCHANGED <<config, environ, resolved, cli, cacheVars>>
    /\ UNCHANGED pureVars

\* Faulty variant: the iterator takes no page for having a next link, so an
\* exhausted page that has one is never left.
FetchNextPage_NoNextLink ==
    /\ Listing /\ iter.pc = "emitting"
    /\ iter.idx = iter.pages[iter.page]
    /\ iter.page > Len(iter.pages)
    /\ \E ok \in BOOLEAN :
        iter' = IF ok
                THEN [iter EXCEPT !.page = @ + 1, !.idx = 0, !.fetches = @ + 1]
                ELSE [iter EXCEPT !.pc = "done", !.fetches = @ + 1,
                                  !.stopped = "fetch_error",
                                  !.ret = ErrorAfterIterate(iter.table,
                                                            "transport error")]
    /\ UNCHANGED <<config, environ, resolved, cli, cacheVars>>
    /\ UNCHANGED pureVars

\* The current page is exhausted and carries a next link: the iterator
\* requests the next page; when that fails Iterate returns the error.
FetchNextPage ==
    /\ Listing /\ iter.pc = "emitting"
    /\ iter.idx = iter.pages[iter.page]
    /\ iter.page < Len(iter.pages)
    /\ \E ok \in BOOLEAN :
        iter' = IF ok
                THEN [iter EXCEPT !.page = @ + 1, !.idx = 0, !.fetches = @ + 1]
                ELSE [iter EXCEPT !.pc = "done", !.fetches = @ + 1,
                                  !.stopped = "fetch_error",
                                  !.ret = ErrorAfterIterate(iter.table,
                                                            "transport error")]
    /\ UNCHANGED <<config, environ, resolved, cli, cacheVars>>
    /\ UNCHANGED pureVars

\* The outcomes of client.List of listAdApplications: the applications of
\* all the pages (the hamilton client follows the next links inside List),
\* a not-found error, or any other error.
ListOutcomes == {"ok", "not_found", "error"}

\* listAdApplications, the one pass of `for pagesLeft`: client.List returns
\* the whole collection, or fails and the function returns (nil, nil for a
\* not-found error, the error as it is otherwise).
ListApplications ==
    /\ Listing /\ iter.pc = "request"
    /\ iter.table = "application"
    /\ \E outcome \in ListOutcomes :
        iter' = CASE outcome = "ok" ->
                       [iter EXCEPT !.pc = "streaming", !.requests = 1,
                                    !.page = Len(iter.pages)]
                  [] outcome = "not_found" ->
                       [iter EXCEPT !.pc = "done", !.requests = 1,
                                    !.stopped = "request_error", !.ret = "nil"]
                  [] OTHER ->
                       [iter EXCEPT !.pc = "done", !.requests = 1,
                                    !.stopped = "request_error",
                                    !.ret = "transport error"]
    /\ UNCHANGED <<config, environ, resolved, cli, cacheVars>>
    /\ UNCHANGED pureVars

\* `for _, application := range *applications { d.StreamListItem(...) }`: the
\* next application is streamed; the row budget is not read.
StreamApplication ==
    /\ Listing /\ iter.pc = "streaming"
    /\ iter.idx < TotalItems(iter.pages)
    /\ iter' = [iter EXCEPT !.idx = @ + 1, !.handed = @ + 1, !.streamed = @ + 1]
    /\ UNCHANGED <<config, environ, resolved, cli, cacheVars>>
    /\ UNCHANGED pureVars

\* The range loop is over: pagesLeft = false ends `for pagesLeft` and the
\* function returns nil and the (nil) err of GetNewSession.
ApplicationsStreamed ==
    /\ Listing /\ iter.pc = "streaming"
    /\ iter.idx = TotalItems(iter.pages)
    /\ iter' = [iter EXCEPT !.pc = "done", !.stopped = "exhausted", !.ret = "nil"]
    /\ UNCHANGED <<config, environ, resolved, cli, cacheVars>>
    /\ UNCHANGED pureVars

\* The query's context is cancelled from outside.
Cancel ==
    /\ Listing /\ iter.pc \in {"request", "emitting", "streaming"}
    /\ ~iter.cancelled
    /\ iter' = [iter EXCEPT !.cancelled = TRUE]
    /\ UNCHANGED <<config, environ, resolved, cli, cacheVars>>
    /\ UNCHANGED pureVars

NextIter ==
    \/ FirstRequest
    \/ VisitItem
    \/ LastPageExhausted
    \/ FetchNextPage
    \/ ListApplications
    \/ StreamApplication
    \/ ApplicationsStreamed
    \/ Cancel

SpecIter == InitIter /\ [][NextIter]_vars

\* The steps of the list function itself: its goroutine runs them one after
\* the other, and each remote call returns (timeouts are the transport's).
ListSteps ==
    \/ FirstRequest
    \/ VisitItem
    \/ LastPageExhausted
    \/ FetchNextPage
    \/ ListApplications
    \/ StreamApplication
    \/ ApplicationsStreamed

\* SpecIter with the list function always taking its next step.
SpecIterFair == InitIter /\ [][NextIter]_vars /\ WF_vars(ListSteps)

\* C9 (as claimed): when the row budget first reads zero right after the k-th
\* item was handed to the visitor, the iteration has emitted exactly k items
\* and requested no page beyond the one that item is on.
C9_StopsAfterKItems ==
    (Listing /\ iter.stopped = "budget") =>
        /\ iter.zeroAt = iter.handed
        /\ iter.streamed = iter.zeroAt
        /\ iter.fetches = iter.page - 1

\* What holds of both tables: the budget stops the iteration at once, with
\* no page requested beyond the current one.
C9_NoFetchAfterBudget ==
    (Listing /\ iter.stopped = "budget") =>
        /\ iter.pc = "done"
        /\ iter.zeroAt = iter.handed
        /\ iter.fetches = iter.page - 1

\* C10 (as claimed): when fetching a next page fails the iteration stops and
\* the list operation returns that error, never a nil error.
C10_FetchErrorReturned ==
    (Listing /\ iter.stopped = "fetch_error") =>
        /\ iter.pc = "done"
        /\ iter.ret = "transport error"

\* The ways C11 gives for an execution to end: the budget read zero after an
\* item, the last page was exhausted, or a request failed.
EndsAsClaimed ==
    \/ /\ iter.stopped = "budget"
       /\ iter.handed > 0 /\ iter.zeroAt = iter.handed
       /\ RowsRemaining(iter) = 0
    \/ /\ iter.stopped = "exhausted"
       /\ iter.page = Len(iter.pages)
       /\ iter.handed = TotalItems(iter.pages)
    \/ /\ iter.stopped = "fetch_error"
       /\ iter.page < Len(iter.pages) /\ iter.fetches = iter.page
    \/ /\ iter.stopped = "request_error"
       /\ iter.page = 0 /\ iter.handed = 0

\* C11: every execution of a list function on a finite chain of pages, under
\* every behaviour of the row budget (any limit, cancellation at any point),
\* eventually reaches done; it ends because the budget read zero after an
\* item, because the last page was exhausted, or because a request failed;
\* and an execution whose budget never read zero and whose requests all
\* succeeded has handed every item of every page to the visitor.
C11_ReachesDone ==
    /\ <>(Listing /\ iter.pc = "done")
    /\ []((Listing /\ iter.pc = "done") => EndsAsClaimed)
    /\ []((Listing /\ iter.pc = "done" /\ RowsRemaining(iter) # 0
              /\ iter.stopped \notin {"fetch_error", "request_error"})
            => (iter.stopped = "exhausted"
                /\ iter.handed = TotalItems(iter.pages)))

\* A two-page result listed to the end of the cursor chain by a caller whose
\* budget never read zero, the second page fetched once.
C11_Witness ==
    /\ Listing /\ iter.pc = "done" /\ iter.stopped = "exhausted"
    /\ iter.table = "directory_audit"
    /\ Len(iter.pages) = 2 /\ iter.pages[1] > 0 /\ iter.pages[2] > 0
    /\ iter.fetches = 1 /\ iter.checks = TotalItems(iter.pages)
    /\ RowsRemaining(iter) # 0

-----------------------------------------------------------------------------
(* Specification SpecFilter: the filter of listAdDirectoryAuditReports,     *)
(* built twice from the same quals (two executions of the same query).      *)

\* Most predicates (equality quals on filterable fields plus quals on
\* activity_date_time) a query carries.
MaxQuals == 2

\* time.Second, in the unit of the timestamps of the model (half a second).
Second == 2

\* The timestamps a qual carries: 1 s, 1.5 s and 2 s after 1970-01-01T00:00:00Z.
Times == {Second, Second + 1, 2 * Second}

\* Operators: []string{">", ">=", "=", "<", "<="} of the key column.
TimeOperators == {">", ">=", "=", "<", "<="}

\* The keys of the map filterQuals of buildDirectoryAuditQueryFilter.
filterQuals == {"activity_display_name", "category", "correlation_id", "result"}

\* equalQuals[name] == nil.
NilQual == <<>>

\* The string values of an equality qual on a filterable field.
QualStrings == {"x"}

\* The string values of the qual on the column filter.
RawFilters == {"", "category eq 'raw'"}

\* strcase.ToCamel of the names of filterQuals: the first letter and each
\* letter after an underscore in upper case, the underscores dropped.
ToCamel(qual) ==
    CASE qual = "activity_display_name" -> "ActivityDisplayName"
      [] qual = "category"              -> "Category"
      [] qual = "correlation_id"        -> "CorrelationId"
      [] qual = "result"                -> "Result"

\* A whole number of seconds (below 60) after 1970-01-01T00:00:00Z in the
\* layout of time.RFC3339.
Timestamp(sec) ==
    "1970-01-01T00:00:" \o (IF sec < 10 THEN "0" ELSE "") \o ToString(sec) \o "Z"

\* t.Format(time.RFC3339): the layout has no fractional seconds, the
\* fraction of t is dropped.
FormatRFC3339(t) == Timestamp(t \div Second)

\* strings.Join(elems, sep).
RECURSIVE Join(_, _)
Join(elems, sep) ==
    IF elems = <<>> THEN ""
    ELSE IF Len(elems) = 1 THEN elems[1]
    ELSE elems[1] \o sep \o Join(Tail(elems), sep)

\* The orders `for qual := range filterQuals` can visit the keys in: the
\* iteration order of a Go map is not specified and differs between runs.
MapOrders ==
    {o \in [1..Cardinality(filterQuals) -> filterQuals] :
        \A i, j \in DOMAIN o : i # j => o[i] # o[j]}

\* buildDirectoryAuditQueryFilter, the map visited in the given order.
RECURSIVE buildDirectoryAuditQueryFilter(_, _)
buildDirectoryAuditQueryFilter(equalQuals, order) ==
    IF order = <<>> THEN <<>>
    ELSE LET qual == order[1]
             rest == buildDirectoryAuditQueryFilter(equalQuals, Tail(order))
         IN  IF equalQuals[qual] # NilQual
             THEN <<ToCamel(qual) \o " eq '" \o Deref(equalQuals[qual]) \o "'">>
                  \o rest
             ELSE rest

\* Faulty variant: the strict operators are translated without the shift of
\* one second.
TimeClause_NoShift(q) ==
    CASE q.op = ">"  -> "activityDateTime ge " \o FormatRFC3339(q.t)
      [] q.op = ">=" -> "activityDateTime ge " \o FormatRFC3339(q.t)
      [] q.op = "="  -> "activityDateTime eq " \o FormatRFC3339(q.t)
      [] q.op = "<=" -> "activityDateTime le " \o FormatRFC3339(q.t)
      [] q.op = "<"  -> "activityDateTime le " \o FormatRFC3339(q.t)

\* `switch q.Operator` of listAdDirectoryAuditReports: the clause appended
\* for one qual on activity_date_time.
TimeClause(q) ==
    CASE q.op = ">"  -> "activityDateTime ge " \o FormatRFC3339(q.t + Second)
      [] q.op = ">=" -> "activityDateTime ge " \o FormatRFC3339(q.t)
      [] q.op = "="  -> "activityDateTime eq " \o FormatRFC3339(q.t)
      [] q.op = "<=" -> "activityDateTime le " \o FormatRFC3339(q.t)
      [] q.op = "<"  -> "activityDateTime le " \o FormatRFC3339(q.t - Second)

\* The slice filter after the loop over d.Quals["activity_date_time"].Quals.
FilterClauses(equalQuals, timeQuals, order) ==
    buildDirectoryAuditQueryFilter(equalQuals, order)
        \o [i \in 1..Len(timeQuals) |-> TimeClause(timeQuals[i])]

\* Faulty variant: the raw filter is joined with the synthesized clauses.
InputFilter_RawJoined(equalQuals, filter) ==
    LET queryFilter == IF equalQuals["filter"] # NilQual
                       THEN Deref(equalQuals["filter"]) ELSE ""
    IN  IF queryFilter # "" THEN Ptr(Join(<<queryFilter>> \o filter, " and "))
        ELSE IF Len(filter) > 0 THEN Ptr(Join(filter, " and "))
        ELSE NilPtr

\* input.Filter as listAdDirectoryAuditReports sets it (part_001:357-366):
\* the raw filter when it is not empty, else the joined clauses when there
\* are any, else nil.
InputFilter(equalQuals, filter) ==
    LET queryFilter == IF equalQuals["filter"] # NilQual
                       THEN Deref(equalQuals["filter"]) ELSE ""
    IN  IF queryFilter # "" THEN Ptr(queryFilter)
        ELSE IF Len(filter) > 0 THEN Ptr(Join(filter, " and "))
        ELSE NilPtr

\* The quals of a query: d.EqualsQuals and d.Quals["activity_date_time"].Quals.
EqualsQuals ==
    {e \in [filterQuals \cup {"filter"} -> {NilQual} \cup {Ptr(v) : v \in QualStrings \cup RawFilters}] :
        /\ \A f \in filterQuals : e[f] \in {NilQual} \cup {Ptr(v) : v \in QualStrings}
        /\ e["filter"] \in {NilQual} \cup {Ptr(v) : v \in RawFilters}}

TimeQuals ==
    UNION {[1..n -> [op : TimeOperators, t : Times]] : n \in 0..MaxQuals}

\* The predicates a query carries (the qual on filter is none of them).
NumPredicates(equalQuals, timeQuals) ==
    Cardinality({f \in filterQuals : equalQuals[f] # NilQual}) + Len(timeQuals)

InitFilter ==
    /\ config = <<>>
    /\ environ = <<>>
    /\ resolved = NotResolved
    /\ cli = CliUnused
    /\ CacheUnused
    /\ remote = RemoteUnused
    /\ \E equalQuals \in EqualsQuals, timeQuals \in TimeQuals :
          /\ NumPredicates(equalQuals, timeQuals) <= MaxQuals
          /\ query = [ pc         |-> "quals",
                       equalQuals |-> equalQuals,
                       timeQuals  |-> timeQuals,
                       builds     |-> <<>> ]

\* One execution of part_001:329-366 on the quals: the clauses and
\* input.Filter, the map of filterQuals visited in some order.
BuildFilter ==
    /\ query.pc = "quals"
    /\ Len(query.builds) < 2
    /\ \E order \in MapOrders :
        LET filter == FilterClauses(query.equalQuals, query.timeQuals, order)
        IN  query' = [query EXCEPT !.builds =
                         Append(@, [ filter |-> filter,
                                     sent   |-> InputFilter(query.equalQuals,
                                                            filter) ])]
    /\ UNCHANGED <<config, environ, resolved, cli, cacheVars, iter, remote>>

NextFilter == BuildFilter

SpecFilter == InitFilter /\ [][NextFilter]_vars

Filtering == query.pc # "unused"

\* The filterable fields the query has an equality qual on.
EqualityPredicates == {f \in filterQuals : query.equalQuals[f] # NilQual}

\* The clauses of a build that come from buildDirectoryAuditQueryFilter, and
\* those appended for the quals on activity_date_time.
EqualityClauses(b) == SubSeq(b.filter, 1, Len(b.filter) - Len(query.timeQuals))

TimeClauses(b) ==
    SubSeq(b.filter, Len(b.filter) - Len(query.timeQuals) + 1, Len(b.filter))

\* The filterable fields in the order the map literal names them.
FieldOrder == <<"activity_display_name", "category", "correlation_id", "result">>

\* C12 (as claimed): building the filter twice from the same predicates
\* yields the identical filter, and the clauses stand in one fixed field
\* order whatever the run.
C12_Deterministic ==
    (Filtering /\ Len(query.builds) = 2) =>
        /\ query.builds[1].sent = query.builds[2].sent
        /\ \A i \in 1..2 :
              query.builds[i].filter =
                  FilterClauses(query.equalQuals, query.timeQuals, FieldOrder)

\* What holds of the two builds: the same clauses, in some order.
C12_SameClauses ==
    (Filtering /\ Len(query.builds) = 2) =>
        /\ Len(query.builds[1].filter) = Len(query.builds[2].filter)
        /\ {query.builds[1].filter[i] : i \in DOMAIN query.builds[1].filter}
             = {query.builds[2].filter[i] : i \in DOMAIN query.builds[2].filter}

WholeSecond(t) == t % Second = 0

\* The clause C13 gives for an operator and a timestamp of whole seconds.
ClaimedTimeClause(op, t) ==
    CASE op = ">=" -> "activityDateTime ge " \o Timestamp(t \div Second)
      [] op = "<=" -> "activityDateTime le " \o Timestamp(t \div Second)
      [] op = "="  -> "activityDateTime eq " \o Timestamp(t \div Second)
      [] op = ">"  -> "activityDateTime ge " \o Timestamp(t \div Second + 1)
      [] op = "<"  -> "activityDateTime le " \o Timestamp(t \div Second - 1)

\* C13: every qual on activity_date_time yields exactly one clause, and for
\* a timestamp T of whole seconds the clause is `ge T` for >=, `le T` for
\* <=, `eq T` for =, `ge T + 1s` for > and `le T - 1s` for <.
C13_TimeClauses ==
    Filtering =>
        \A n \in DOMAIN query.builds :
            LET b == query.builds[n]
            IN  /\ Len(b.filter) = Cardinality(EqualityPredicates)
                                     + Len(query.timeQuals)
                /\ \A i \in DOMAIN query.timeQuals :
                      WholeSecond(query.timeQuals[i].t) =>
                          TimeClauses(b)[i] =
                              ClaimedTimeClause(query.timeQuals[i].op,
                                                query.timeQuals[i].t)

\* A filter built from `activity_date_time > 1s` and `activity_date_time < 2s`.
C13_Witness ==
    /\ Filtering /\ Len(query.builds) > 0
    /\ query.timeQuals = << [op |-> ">", t |-> Second],
                            [op |-> "<", t |-> 2 * Second] >>
    /\ query.builds[1].filter = << "activityDateTime ge 1970-01-01T00:00:02Z",
                                   "activityDateTime le 1970-01-01T00:00:01Z" >>

\* C14 (as claimed): whenever the query has a qual on filter, the filter
\* sent is exactly that string.
C14_RawFilterOverrides ==
    Filtering =>
        \A n \in DOMAIN query.builds :
            query.equalQuals["filter"] # NilQual =>
                query.builds[n].sent = Ptr(Deref(query.equalQuals["filter"]))

\* C14 (amended): a raw filter that is not the empty string is sent as it
\* is, with no synthesized clause; with an empty raw filter the query is
\* filtered as if it had none.
C14_NonEmptyRawFilterOverrides ==
    Filtering =>
        \A n \in DOMAIN query.builds :
            LET b   == query.builds[n]
                raw == query.equalQuals["filter"]
            IN  /\ (raw # NilQual /\ Deref(raw) # "") => b.sent = Ptr(Deref(raw))
                /\ (raw # NilQual /\ Deref(raw) = "") =>
                      b.sent = IF Len(b.filter) > 0
                               THEN Ptr(Join(b.filter, " and ")) ELSE NilPtr

\* A raw filter sent for a query that also has an equality qual and a qual
\* on activity_date_time.
C14_Witness ==
    /\ Filtering /\ Len(query.builds) > 0
    /\ query.equalQuals["filter"] = Ptr("category eq 'raw'")
    /\ EqualityPredicates # {} /\ Len(query.timeQuals) > 0
    /\ Len(query.builds[1].filter) = 2
    /\ query.builds[1].sent = Ptr("category eq 'raw'")

\* The names of the filterable fields in the filter DSL.
DslName(qual) ==
    CASE qual = "activity_display_name" -> "activityDisplayName"
      [] qual = "category"              -> "category"
      [] qual = "correlation_id"        -> "correlationId"
      [] qual = "result"                -> "result"

\* C15 (as claimed): the equality clauses of a build are exactly the clauses
\* "<field in the DSL's camelCase> eq '<value>'" of the filterable fields
\* the query has an equality qual on, one for each.
C15_EqualityClauses ==
    Filtering =>
        \A n \in DOMAIN query.builds :
            LET eq == EqualityClauses(query.builds[n])
            IN  /\ Len(eq) = Cardinality(EqualityPredicates)
                /\ {eq[i] : i \in DOMAIN eq} =
                      {DslName(f) \o " eq '" \o Deref(query.equalQuals[f]) \o "'" :
                          f \in EqualityPredicates}

\* What holds of the equality clauses: one for each equality qual on a
\* filterable field, none for a field without one.
C15_OneClausePerPredicate ==
    Filtering =>
        \A n \in DOMAIN query.builds :
            LET eq == EqualityClauses(query.builds[n])
            IN  /\ Len(eq) = Cardinality(EqualityPredicates)
                /\ Cardinality({eq[i] : i \in DOMAIN eq}) = Len(eq)

-----------------------------------------------------------------------------
(* Specification SpecClassify: one error, normalized by getErrorObject,     *)
(* tested by the predicate of isIgnorableErrorPredicate, and returned by a  *)
(* get or list hydrate function to the plugin SDK.                          *)

\* Error codes of a remote error body.
ErrorCodes == {"Request_ResourceNotFound", "Request_BadRequest"}

\* Messages of a remote error body.
ErrorMessages == {"Invalid object identifier 'x'.", "Insufficient privileges."}

\* err.Error() of errors that are no *odataerrors.ODataError.
ErrorTexts == {"context deadline exceeded", "Request_ResourceNotFound: no route"}

\* The strings an ignore set is made of.
Patterns == {"Request_ResourceNotFound", "Invalid object identifier", "deadline"}

\* ignoreErrorCodes: the patterns, whatever their order.
PatternSets == SUBSET Patterns

\* A nil error, and a non-nil error holding a nil *RequestError.
NilError == [kind |-> "nil"]

NilRequestError == [kind |-> "RequestError", ptr |-> NilPtr]

\* &RequestError{Code: code, Message: message}.
RequestError(code, message) ==
    [kind |-> "RequestError", ptr |-> Ptr([Code |-> code, Message |-> message])]

RequestErrors ==
    {RequestError(c, m) : c \in {""} \cup ErrorCodes,
                          m \in ErrorMessages \cup ErrorTexts}

\* *odataerrors.ODataError: GetErrorEscaped() is nil when the response body
\* has no error object, and the code and the message of an error object are
\* pointers that are nil when the body leaves them out.
ODataErrors ==
    {[kind |-> "ODataError", main |-> NilPtr]}
    \cup {[kind |-> "ODataError", main |-> Ptr([code |-> c, message |-> m])] :
            c \in {NilPtr} \cup {Ptr(x) : x \in ErrorCodes},
            m \in {NilPtr} \cup {Ptr(x) : x \in ErrorMessages}}

\* Any other error value.
OtherErrors == {[kind |-> "error", text |-> t] : t \in ErrorTexts}

\* The errors a remote call fails with.
RemoteErrors == ODataErrors \cup OtherErrors

Errors == {NilError, NilRequestError} \cup RequestErrors \cup RemoteErrors

\* err.Error(): of a *RequestError the JSON of its two fields, of an
\* ODataError the text of its embedded ApiError.
ErrorText(err) ==
    CASE err.kind = "RequestError" ->
           "{\"Code\":\"" \o Deref(err.ptr).Code \o "\",\"Message\":\""
               \o Deref(err.ptr).Message \o "\"}"
      [] err.kind = "ODataError" -> "error status code received from the API"
      [] OTHER -> err.text

\* A run-time panic: nil pointer dereference.
Panic == [kind |-> "panic"]

\* getErrorObject (unnamed/part_000:25-35).  errorable.GetCode() on a nil
\* errorable, and the dereference of a nil code or message, panic.
getErrorObject(err) ==
    IF err.kind = "ODataError"
    THEN IF err.main = NilPtr THEN Panic
         ELSE IF Deref(err.main).code = NilPtr THEN Panic
         ELSE IF Deref(err.main).message = NilPtr THEN Panic
         ELSE RequestError(Deref(Deref(err.main).code),
                           Deref(Deref(err.main).message))
    ELSE RequestError("", ErrorText(err))

\* strings.Contains(s, substr).
Contains(s, substr) ==
    \E i \in 1..(Len(s) - Len(substr) + 1) :
        SubSeq(s, i, i + Len(substr) - 1) = substr

\* Faulty variant: only the code is compared, the message is not searched.
isIgnorableErrorPredicate_CodeOnly(ignoreErrorCodes, err) ==
    /\ err.kind = "RequestError"
    /\ \E item \in ignoreErrorCodes :
          /\ err.ptr # NilPtr
          /\ Deref(err.ptr).Code = item

\* The predicate isIgnorableErrorPredicate(ignoreErrorCodes) returns,
\* applied to err (unnamed/part_000:37-50).
isIgnorableErrorPredicate(ignoreErrorCodes, err) ==
    /\ err.kind # "nil"
    /\ err.kind = "RequestError"
    /\ \E item \in ignoreErrorCodes :
          /\ err.ptr # NilPtr
          /\ \/ Deref(err.ptr).Code = item
             \/ Contains(Deref(err.ptr).Message, item)

\* The hydrate functions that return getErrorObject's result.
Operations == {"getAdDirectoryAuditReport", "listAdDirectoryAuditReports"}

\* The ignore set of an operation: GetConfig.IgnoreConfig of the table
\* (part_001:262-264); its ListConfig has none.
IgnoreErrorCodes(op) ==
    IF op = "getAdDirectoryAuditReport"
    THEN {"Request_ResourceNotFound", "Invalid object identifier"}
    ELSE {}

NotYet == [kind |-> "not yet"]

InitClassify ==
    /\ config = <<>>
    /\ environ = <<>>
    /\ resolved = NotResolved
    /\ cli = CliUnused
    /\ CacheUnused
    /\ query = QueryUnused
    /\ \E err \in Errors, patterns \in PatternSets, op \in Operations :
          remote = [ pc       |-> "failed",
                     op       |-> op,
                     err      |-> err,
                     patterns |-> patterns,
                     applied  |-> NotYet,   \* the predicate of patterns on err
                     errObj   |-> NotYet,   \* getErrorObject(err)
                     outcome  |-> NotYet ]  \* what the query gets from op

Classifying == remote.pc # "unused"

\* isIgnorableErrorPredicate(patterns) applied to the error.
ApplyPredicate ==
    /\ Classifying /\ remote.applied = NotYet
    /\ remote' = [remote EXCEPT !.applied =
                     [kind   |-> "bool",
                      value  |-> isIgnorableErrorPredicate(remote.patterns,
                                                           remote.err)]]
    /\ UNCHANGED <<config, environ, resolved, cli, cacheVars, iter, query>>

\* `errObj := getErrorObject(err)` after the remote call of the operation
\* failed with err.
GetErrorObject ==
    /\ Classifying /\ remote.pc = "failed"
    /\ remote.err \in RemoteErrors
    /\ remote' = [remote EXCEPT !.pc = "normalized",
                                !.errObj = getErrorObject(remote.err)]
    /\ UNCHANGED <<config, environ, resolved, cli, cacheVars, iter, query>>

\* `return nil, errObj`, and the SDK's use of the operation's
\* ShouldIgnoreErrorFunc on the error returned: an ignored error leaves the
\* query with no row and no error, any other error fails the query.  A
\* panic of getErrorObject ends the hydrate call before it returns.
HydrateReturns ==
    /\ Classifying /\ remote.pc = "normalized"
    /\ remote' = [remote EXCEPT
                     !.pc = "returned",
                     !.outcome =
                        IF remote.errObj = Panic THEN Panic
                        ELSE IF isIgnorableErrorPredicate(
                                    IgnoreErrorCodes(remote.op), remote.errObj)
                        THEN [kind |-> "no result"]
                        ELSE [kind |-> "error", err |-> remote.errObj]]
    /\ UNCHANGED <<config, environ, resolved, cli, cacheVars, iter, query>>

NextClassify ==
    \/ ApplyPredicate
    \/ GetErrorObject
    \/ HydrateReturns

SpecClassify == InitClassify /\ [][NextClassify]_vars

Applied == Classifying /\ remote.applied # NotYet

\* The normalized form of an error: a RequestError is normalized already,
\* any other error is normalized by getErrorObject.
Normalized(err) ==
    IF err.kind = "RequestError" THEN err ELSE getErrorObject(err)

\* The code of a normalized error is one of the patterns, or its message
\* contains one of them.
Matches(patterns, errObj) ==
    \E p \in patterns :
        \/ Deref(errObj.ptr).Code = p
        \/ Contains(Deref(errObj.ptr).Message, p)

\* C16 (as claimed): for every error (one that has a normalized form) and
\* every pattern set, the predicate is true exactly when the normalized code
\* equals a pattern or the normalized message contains one; for a nil error
\* it is false.
C16_IgnorableIffMatch ==
    Applied =>
        IF remote.err.kind = "nil" \/ remote.err = NilRequestError
        THEN remote.applied.value = FALSE
        ELSE Normalized(remote.err) # Panic =>
                remote.applied.value =
                    Matches(remote.patterns, Normalized(remote.err))

\* C16 (amended): for every error that is a normalized *RequestError the
\* predicate is true exactly when its code equals a pattern or its message
\* contains one; for every other error (nil, a nil *RequestError, an error
\* that was not normalized) and for an empty pattern set it is false.
C16_IgnorableIffNormalizedMatch ==
    Applied =>
        /\ remote.applied.value =
              /\ remote.err \in RequestErrors
              /\ Matches(remote.patterns, remote.err)
        /\ remote.patterns = {} => remote.applied.value = FALSE

\* The predicate is true of a normalized error whose code is none of the
\* patterns and whose message contains one.
C16_Witness ==
    /\ Applied /\ remote.applied.value = TRUE
    /\ remote.err = RequestError("Request_BadRequest",
                                 "Invalid object identifier 'x'.")
    /\ remote.patterns = {"Request_ResourceNotFound", "Invalid object identifier"}

ErrorNormalized == Classifying /\ remote.errObj # NotYet

\* The error carries a structured remote error body.
HasErrorBody(err) == err.kind = "ODataError" /\ err.main # NilPtr

\* A string of the body, empty when the body leaves it out.
StringOf(p) == IF p = NilPtr THEN "" ELSE Deref(p)

\* C17 (as claimed): getErrorObject maps every remote-call error to a pair:
\* the code and the message of the error body when the error carries one,
\* else the empty code and the text of the error.
C17_ErrorObject ==
    ErrorNormalized =>
        /\ remote.errObj # Panic
        /\ remote.errObj =
              IF HasErrorBody(remote.err)
              THEN RequestError(StringOf(Deref(remote.err.main).code),
                                StringOf(Deref(remote.err.main).message))
              ELSE RequestError("", ErrorText(remote.err))

\* What holds of getErrorObject: an error body with both a code and a
\* message gives that pair, an error that is no ODataError gives its text.
C17_CompleteBody ==
    ErrorNormalized =>
        /\ (/\ HasErrorBody(remote.err)
            /\ Deref(remote.err.main).code # NilPtr
            /\ Deref(remote.err.main).message # NilPtr)
              => remote.errObj =
                    RequestError(Deref(Deref(remote.err.main).code),
                                 Deref(Deref(remote.err.main).message))
        /\ remote.err.kind = "error"
              => remote.errObj = RequestError("", remote.err.text)

HydrateReturned == Classifying /\ remote.outcome # NotYet

\* The remote call failed with an error body of code Request_ResourceNotFound.
ResourceNotFound(err) ==
    /\ HasErrorBody(err)
    /\ Deref(err.main).code = Ptr("Request_ResourceNotFound")

\* C18 (as claimed): a remote failure with code Request_ResourceNotFound
\* leaves the query with no result and no error under the operation whose
\* ignore set holds that code (the directory-audit get), and fails the query
\* with an error of that code and message under the operation whose ignore
\* set does not (the directory-audit list).
C18_ResourceNotFound ==
    (HydrateReturned /\ ResourceNotFound(remote.err)) =>
        IF "Request_ResourceNotFound" \in IgnoreErrorCodes(remote.op)
        THEN remote.outcome = [kind |-> "no result"]
        ELSE remote.outcome =
                [kind |-> "error",
                 err  |-> RequestError(
                              "Request_ResourceNotFound",
                              StringOf(Deref(remote.err.main).message))]

\* What holds when the error body has a message as well.
C18_WithMessage ==
    (HydrateReturned /\ ResourceNotFound(remote.err)
        /\ Deref(remote.err.main).message # NilPtr) =>
        IF "Request_ResourceNotFound" \in IgnoreErrorCodes(remote.op)
        THEN remote.outcome = [kind |-> "no result"]
        ELSE remote.outcome =
                [kind |-> "error",
                 err  |-> RequestError(
                              "Request_ResourceNotFound",
                              Deref(Deref(remote.err.main).message))]

-----------------------------------------------------------------------------
(* The errors the operations return to the query *)

\* C19 (as claimed): every error a list operation returns because a remote
\* call failed (the first request or the fetch of a later page) has passed
\* through getErrorObject: it is the RequestError, or for
\* listAdSignInReportsTest the error made of its code and message, never
\* the error of the remote call as it is.
C19_ErrorsNormalized ==
    (Listing /\ iter.pc = "done"
        /\ iter.stopped \in {"request_error", "fetch_error"}
        /\ iter.ret # "nil")
      => iter.ret \in {"RequestError", "errors.New"}

\* What holds of listAdDirectoryAuditReports: the error of its first
\* request is returned normalized.
C19_FirstRequestNormalized ==
    (Listing /\ iter.table = "directory_audit"
        /\ iter.stopped = "request_error")
      => iter.ret = "RequestError"

\* C20 (as claimed): a failure to construct the authorizer, or of the CLI
\* helper, makes GetNewSession return the error and no session: the call
\* returns, and the process goes on running.
C20_FailureReturned ==
    /\ crashed = FALSE
    /\ \A p \in DOMAIN procs :
          procs[p].ret.err \in {"invoke_failed", "unmarshal_failed"}
              => procs[p].ret.inst = NilInstance

\* What holds of the CLI helper: its failure is returned with no session
\* and nothing is cached by that call.
C20_CliFailureReturned ==
    \A p \in DOMAIN procs :
        (procs[p].pc = "done"
            /\ procs[p].ret.err \in {"invoke_failed", "unmarshal_failed"})
          => procs[p].ret.inst = NilInstance

-----------------------------------------------------------------------------
(* Specification SpecMerge: the values getApplicableAuthorizationDetails    *)
(* and GetGraphClient take from the config file and from the environment,   *)
(* on any config and environment.                                           *)

MergeConfigs ==
    [ TenantID            : ConfigStrings,
      Environment         : ConfigStrings,
      ClientID            : ConfigStrings,
      ClientSecret        : ConfigStrings,
      CertificatePath     : ConfigStrings,
      CertificatePassword : ConfigStrings,
      EnableMsi           : ConfigBools,
      MsiEndpoint         : {NilPtr, Ptr("c")} ]

MergeEnvirons ==
    [ AZURE_TENANT_ID            : EnvStrings,
      AZURE_ENVIRONMENT          : EnvStrings,
      AZURE_CLIENT_ID            : EnvStrings,
      AZURE_CLIENT_SECRET        : EnvStrings,
      AZURE_CERTIFICATE_PATH     : EnvStrings,
      AZURE_CERTIFICATE_PASSWORD : EnvStrings ]

InitMerge ==
    /\ config \in MergeConfigs
    /\ environ \in MergeEnvirons
    /\ resolved = NotResolved
    /\ cli = CliUnused
    /\ CacheUnused
    /\ PureUnused

\* The head of getApplicableAuthorizationDetails (service.go:88-163) and of
\* GetGraphClient (service.go:251-295): the local variables are filled.
ReadConfig ==
    /\ resolved = NotResolved
    /\ config \in MergeConfigs
    /\ resolved' = [by |-> "ResolvedInputs",
                    in |-> ResolvedInputs(config, environ)]
    /\ UNCHANGED <<config, environ, cli>>
    /\ UNCHANGED <<cacheVars, iter>>
    /\ UNCHANGED pureVars

NextMerge == ReadConfig

SpecMerge == InitMerge /\ [][NextMerge]_vars

Merged == resolved.by = "ResolvedInputs"

\* The fields that have an AZURE_* environment variable: the local variable,
\* the config field and the variable of each.
EnvBackedFields ==
    { <<"tenantID", "TenantID", "AZURE_TENANT_ID">>,
      <<"environment", "Environment", "AZURE_ENVIRONMENT">>,
      <<"clientID", "ClientID", "AZURE_CLIENT_ID">>,
      <<"clientSecret", "ClientSecret", "AZURE_CLIENT_SECRET">>,
      <<"certificatePath", "CertificatePath", "AZURE_CERTIFICATE_PATH">>,
      <<"certificatePassword", "CertificatePassword",
        "AZURE_CERTIFICATE_PASSWORD">> }

\* C21 (as claimed): for each field, when its AZURE_* environment variable
\* is set, the value resolution uses is the variable's value, whatever the
\* config file says.
C21_EnvOverridesConfig ==
    Merged =>
        \A f \in EnvBackedFields :
            environ[f[3]] # "" => resolved.in[f[1]] = environ[f[3]]

\* C21 (amended): for each of tenant, cloud environment, client id, client
\* secret, certificate path and certificate password, the value resolution
\* uses is the config file's value when the file sets the field (also to the
\* empty string), and the value of the AZURE_* variable otherwise; the
\* managed-identity flag and endpoint come from the config file alone.
C21_ConfigOverridesEnv ==
    Merged =>
        /\ \A f \in EnvBackedFields :
              resolved.in[f[1]] = IF config[f[2]] # NilPtr
                                  THEN Deref(config[f[2]])
                                  ELSE environ[f[3]]
        /\ resolved.in.enableMsi = (config.EnableMsi = Ptr(TRUE))
        /\ resolved.in.msiEndpoint \in
              {DefaultMsiEndpoint} \cup
              (IF config.MsiEndpoint # NilPtr
               THEN {Deref(config.MsiEndpoint)} ELSE {})

\* The config file sets the tenant and the environment sets another one:
\* the file's is used; the client id is absent from the file and is taken
\* from the environment.
C21_Witness ==
    /\ Merged
    /\ config.TenantID = Ptr("c") /\ environ.AZURE_TENANT_ID = "e"
    /\ resolved.in.tenantID = "c"
    /\ config.ClientID = NilPtr /\ environ.AZURE_CLIENT_ID = "e"
    /\ resolved.in.clientID = "e"

-----------------------------------------------------------------------------
(* No retry within one list execution (SpecIter).                           *)

\* The next-page requests an execution has sent when each page after the
\* first was asked for once: one per page reached, and one more for the
\* request that failed.
FetchesSentOnce ==
    IF iter.page = 0 THEN 0
    ELSE (iter.page - 1) + (IF iter.stopped = "fetch_error" THEN 1 ELSE 0)

-----------------------------------------------------------------------------
(* The client GetGraphClient returns, and the writes of the cache           *)
(* (SpecCache).                                                             *)

\* C23 (as claimed): a call of GetGraphClient that returns a nil error
\* returns a client and a request adapter that are both non-nil, on a miss
\* and on a hit.
C23_ClientAndAdapter ==
    \A p \in DOMAIN procs :
        (Returned(p, "GetGraphClient") /\ procs[p].ret.err = "nil") =>
            /\ procs[p].ret.inst # NilInstance
            /\ procs[p].ret.adapter # "nil"

\* What holds: the client is never nil, and a call that constructed the
\* client returns the adapter it was built on.
C23_MissReturnsAdapter ==
    \A p \in DOMAIN procs :
        (Returned(p, "GetGraphClient") /\ procs[p].ret.err = "nil") =>
            /\ procs[p].ret.inst # NilInstance
            /\ procs[p].ranResolver => procs[p].ret.adapter # "nil"

\* The call of p returns in this step.
Returns(p) == procs[p].pc # "done" /\ procs'[p].pc = "done"

-----------------------------------------------------------------------------
(* The two resolvers side by side (SpecResolve).                            *)

\* The method getApplicableAuthorizationDetails names on the config and
\* environment of the state, and the method of the credential GetGraphClient
\* builds on them.
SessionMethod ==
    MethodNamed(getApplicableAuthorizationDetails(config, environ).authMethod)

GraphClientMethod ==
    MethodOfCredential(GraphClientCredential(config, environ))

\* C25 (as claimed): on every combination of tenant, client id, client
\* secret, certificate path, certificate password and managed-identity flag,
\* the method getApplicableAuthorizationDetails selects is the type of the
\* credential GetGraphClient builds.
C25_ResolversAgree ==
    /\ resolved.by = "getApplicableAuthorizationDetails" =>
            MethodNamed(resolved.out.authMethod) = GraphClientMethod
    /\ resolved.by = "GetGraphClient" =>
            MethodOfCredential(resolved.cred) = SessionMethod

\* What holds: the two agree whenever the tenant is empty, the Secret tier
\* applies, or a certificate path comes with a password or there is no
\* certificate tier at all and the managed-identity flag is set.
C25_AgreeOutsideCertificate ==
    (resolved.by \in {"getApplicableAuthorizationDetails", "GetGraphClient"}
        /\ \/ In.tenantID = ""
           \/ SecretTierApplies
           \/ CertificateTierApplies /\ In.certificatePassword # ""
           \/ ~CertificateTierApplies /\ In.enableMsi)
      => SessionMethod = GraphClientMethod

-----------------------------------------------------------------------------
(* The reads of the row budget (SpecIter).                                  *)

\* C26 (as claimed): the iterator callbacks read the row budget exactly once
\* per item streamed, after streaming it: at every point the number of
\* budget reads equals the number of items streamed, and no read is made for
\* an item that was not streamed.
C26_OneCheckPerStreamedItem ==
    (Listing /\ iter.table \in IteratorTables) =>
        iter.checks = iter.streamed

\* What holds: the budget is read once per callback invocation, and the
\* sign-in callback streams every item it is handed.
C26_OneCheckPerInvocation ==
    (Listing /\ iter.table \in IteratorTables) =>
        /\ iter.checks = iter.handed
        /\ iter.table = "sign_in_test" => iter.checks = iter.streamed

-----------------------------------------------------------------------------
(* Specification SpecTop: the $top query parameter the two report tables    *)
(* derive from the caller's LIMIT (d.QueryContext.Limit, a *int64).         *)

\* An int64 in two's complement, as four 16-bit limbs, the lowest first.
LimbBase == 2^16

LimbValues == {0, 1, 999, 1000, 1001, 32767, 32768, 65535}

Int64s == [1..4 -> LimbValues]

\* d.QueryContext.Limit: nil when the query has no LIMIT.
Limits == {NilPtr} \cup {Ptr(x) : x \in Int64s}

IsNegative(x) == x[4] >= LimbBase \div 2

\* The value lies in 0 .. 2^16 - 1.
FitsLowLimb(x) == x[2] = 0 /\ x[3] = 0 /\ x[4] = 0

\* x > n, x < n and x <= n on an int64 x, for 0 <= n < 2^16.
GreaterThan(x, n) == ~IsNegative(x) /\ (~FitsLowLimb(x) \/ x[1] > n)

LessThan(x, n) == IsNegative(x) \/ (FitsLowLimb(x) /\ x[1] < n)

LessOrEqual(x, n) == IsNegative(x) \/ (FitsLowLimb(x) /\ x[1] <= n)

\* The Go conversion int32(x) of an int64: the low 32 bits, read as signed.
int32(x) ==
    IF x[2] >= LimbBase \div 2
    THEN (x[2] - LimbBase) * LimbBase + x[1]
    ELSE x[2] * LimbBase + x[1]

\* `if limit != nil { if *limit > 0 && *limit < 1000 {` of
\* listAdDirectoryAuditReports.
DirectoryAuditNarrows(limit) ==
    /\ limit # NilPtr
    /\ GreaterThan(Deref(limit), 0) /\ LessThan(Deref(limit), 1000)

\* Faulty variant: the limit is narrowed to 32 bits before it is compared.
DirectoryAuditTop_NarrowFirst(limit) ==
    IF limit # NilPtr /\ int32(Deref(limit)) > 0 /\ int32(Deref(limit)) < 1000
    THEN Ptr(int32(Deref(limit)))
    ELSE Ptr(1000)

\* input.Top of listAdDirectoryAuditReports: Int32(1000), replaced by the
\* narrowed limit when the limit is inside the bounds.
DirectoryAuditTop(limit) ==
    IF DirectoryAuditNarrows(limit)
    THEN Ptr(int32(Deref(limit)))
    ELSE Ptr(1000)

\* `if limit != nil { if *limit > 0 && *limit <= 999 {` of
\* listAdSignInReportsTest.
SignInNarrows(limit) ==
    /\ limit # NilPtr
    /\ GreaterThan(Deref(limit), 0) /\ LessOrEqual(Deref(limit), 999)

\* input.Top of listAdSignInReportsTest: nil (the parameter is not sent)
\* unless the limit is inside the bounds.
SignInTop(limit) ==
    IF SignInNarrows(limit)
    THEN Ptr(int32(Deref(limit)))
    ELSE NilPtr

InitTop ==
    /\ config = <<>>
    /\ environ = <<>>
    /\ resolved = NotResolved
    /\ cli = CliUnused
    /\ CacheUnused
    /\ remote = RemoteUnused
    /\ \E table \in IteratorTables, limit \in Limits :
          query = [ pc       |-> "limit",
                    table    |-> table,
                    limit    |-> limit,
                    top      |-> NilPtr,
                    narrowed |-> FALSE ]

\* listAdDirectoryAuditReports, part_001:314-327.
SetDirectoryAuditTop ==
    /\ query.pc = "limit" /\ query.table = "directory_audit"
    /\ query' = [query EXCEPT !.pc = "top",
                              !.top = DirectoryAuditTop(query.limit),
                              !.narrowed = DirectoryAuditNarrows(query.limit)]
    /\ UNCHANGED <<config, environ, resolved, cli, cacheVars, iter, remote>>

\* listAdSignInReportsTest, part_002:74-85.
SetSignInTop ==
    /\ query.pc = "limit" /\ query.table = "sign_in_test"
    /\ query' = [query EXCEPT !.pc = "top",
                              !.top = SignInTop(query.limit),
                              !.narrowed = SignInNarrows(query.limit)]
    /\ UNCHANGED <<config, environ, resolved, cli, cacheVars, iter, remote>>

NextTop ==
    \/ SetDirectoryAuditTop
    \/ SetSignInTop

SpecTop == InitTop /\ [][NextTop]_vars

\* The caller's limit is the number n.
LimitIs(n) == query.limit = Ptr(<<n, 0, 0, 0>>)

\* The caller's limit is one of 1 .. 999.
LimitWithinBounds == \E n \in 1..999 : LimitIs(n)

\* C27: for every caller limit (absent, zero, negative, very large), Top
\* stays in the API's range: the directory-audit Top is the limit when
\* 0 < limit < 1000 and 1000 otherwise; the sign-in Top is the limit when
\* 1 <= limit <= 999 and is not sent otherwise; and the 64-bit limit is
\* narrowed to 32 bits only when it lies inside these bounds.
C27_TopWithinRange ==
    query.pc = "top" =>
        /\ query.table = "directory_audit" =>
              /\ query.top # NilPtr
              /\ Deref(query.top) \in 1..1000
              /\ \A n \in 1..999 : LimitIs(n) => query.top = Ptr(n)
              /\ ~LimitWithinBounds => query.top = Ptr(1000)
        /\ query.table = "sign_in_test" =>
              /\ query.top # NilPtr => Deref(query.top) \in 1..999
              /\ \A n \in 1..999 : LimitIs(n) => query.top = Ptr(n)
              /\ ~LimitWithinBounds => query.top = NilPtr
        /\ query.narrowed => LimitWithinBounds

\* A directory-audit query with LIMIT 2^32 + 1, whose low 32 bits are 1:
\* Top is 1000 and the limit was not narrowed.
C27_Witness ==
    /\ query.pc = "top" /\ query.table = "directory_audit"
    /\ query.limit = Ptr(<<1, 0, 1, 0>>)
    /\ query.top = Ptr(1000) /\ ~query.narrowed

====
